---- MODULE Spec2Model ----
(***************************************************************************)
(* OrderedDict (src/ordered_dict.go): a map from keys to list nodes plus a *)
(* doubly linked list between two sentinels.  The model keeps the heap of  *)
(* nodes with their prev/next pointers, so that every splice is computed   *)
(* pointer by pointer, statement by statement, as the code does it.        *)
(***************************************************************************)
EXTENDS Integers, Sequences, FiniteSets, TLC

\* ---------------------------------------------------------------- bounds
\* Keys are 1..NumKeys and values 1..MaxVal; at most MaxNodes data nodes
\* are reachable at a time; a run makes at most MaxWrites mutating calls.
\* Up to MaxGoroutines goroutines share one dict.
NumKeys == 3
MaxVal == 2
MaxNodes == 3
MaxWrites == 4
MaxGoroutines == 3
\* NumSetters goroutines insert KeysEach keys each.
NumSetters == 2
KeysEach == 2
\* LiveWriters goroutines write LiveKeys keys beside one reader.
LiveWriters == 1
LiveKeys == 2

\* ------------------------------------------------------- program values
\* Go's nil pointer, and the zero value of K and of V.
Nil == 0
ZeroK == 0
ZeroV == 0
\* The two sentinel nodes allocated by New.
head == 1
tail == 2

KeySet == 1..NumKeys
ValSet == 1..MaxVal
DataNodes == 3..(MaxNodes + 2)
Nodes == {head, tail} \cup DataNodes

VARIABLES
    o,      \* the OrderedDict: data (index), len, and the node heap
            \* (next, prev, key, val of every node)
    last,   \* the observed call: its name, arguments and results
    pre,    \* the OrderedDict as it was just before that call
    hung,   \* TRUE once a list walk failed to reach the tail sentinel
    writes, \* the number of calls of mutating operations so far
    recent, \* per key, what the caller's own calls say Get must return:
            \* the value of its latest Set not followed by a Delete,
            \* Remove or Clear, as <<value, TRUE>>, else <<zero, FALSE>>
    impl,   \* which of the two definitions of OrderedDict in
            \* src/ordered_dict.go the program is built from
    proc,   \* per goroutine, the method it is in and how far it has got
    mu      \* o.mu, the sync.RWMutex: held by a writer (w), and the
            \* number of readers that hold it (r)

dictVars == <<o, last, pre, hung, writes, recent>>
lockVars == <<impl, proc, mu>>
vars == <<o, last, pre, hung, writes, recent, impl, proc, mu>>

\* ------------------------------------------------------------ New
\* The dict New returns, in a heap whose nodes are NS.
NewOn(NS) ==
    [ data |-> <<>>,
      len  |-> 0,
      next |-> [n \in NS |-> IF n = head THEN tail ELSE Nil],
      prev |-> [n \in NS |-> IF n = tail THEN head ELSE Nil],
      key  |-> [n \in NS |-> ZeroK],
      val  |-> [n \in NS |-> ZeroV] ]

New == NewOn(Nodes)

\* ------------------------------------------------- memory management
\* Nodes some pointer chain from the dict still reaches.
RECURSIVE reach(_, _)
reach(d, S) ==
    LET T == S \cup (({d.next[n] : n \in S} \cup {d.prev[n] : n \in S}) \ {Nil})
    IN  IF T = S THEN S ELSE reach(d, T)

Live(d) == reach(d, {head, tail} \cup {d.data[k] : k \in DOMAIN d.data})

Free(d) == ((1..Len(d.next)) \ {head, tail}) \ Live(d)

\* &node[K, V]{...}: a node no pointer refers to.
NewNode(d) == CHOOSE n \in Free(d) : \A m \in Free(d) : n <= m

\* The garbage collector: a node nothing reaches is gone.
Collect(d) ==
    LET L == Live(d)
    IN  [d EXCEPT !.next = [n \in 1..Len(d.next) |-> IF n \in L THEN d.next[n] ELSE Nil],
                  !.prev = [n \in 1..Len(d.prev) |-> IF n \in L THEN d.prev[n] ELSE Nil],
                  !.key  = [n \in 1..Len(d.key) |-> IF n \in L THEN d.key[n] ELSE ZeroK],
                  !.val  = [n \in 1..Len(d.val) |-> IF n \in L THEN d.val[n] ELSE ZeroV]]

\* ------------------------------------------------------ list splicing
unlinkNode(d, n) ==
    LET d1 == [d EXCEPT !.next[d.prev[n]] = d.next[n]]
    IN  [d1 EXCEPT !.prev[d1.next[n]] = d1.prev[n]]

linkToEnd(d, n) ==
    LET prevTail == d.prev[tail]
        d1 == [d  EXCEPT !.prev[n] = prevTail]
        d2 == [d1 EXCEPT !.next[n] = tail]
        d3 == [d2 EXCEPT !.next[prevTail] = n]
    IN  [d3 EXCEPT !.prev[tail] = n]

linkToStart(d, n) ==
    LET prevHead == d.next[head]
        d1 == [d  EXCEPT !.next[n] = prevHead]
        d2 == [d1 EXCEPT !.prev[n] = head]
        d3 == [d2 EXCEPT !.prev[prevHead] = n]
    IN  [d3 EXCEPT !.next[head] = n]

linkAfter(d, n, after) ==
    LET afterNext == d.next[after]
        d1 == [d  EXCEPT !.next[n] = afterNext]
        d2 == [d1 EXCEPT !.prev[n] = after]
        d3 == [d2 EXCEPT !.next[after] = n]
    IN  [d3 EXCEPT !.prev[afterNext] = n]

\* ---------------------------------------------------------- list walk
\* for curr := o.head.next; curr != o.tail; curr = curr.next
\* A walk over distinct nodes takes fewer steps than the heap has nodes, so
\* a walk that uses up that many never reaches the tail.
RECURSIVE walkFrom(_, _, _)
walkFrom(d, curr, fuel) ==
    IF curr = tail \/ fuel = 0
    THEN <<>>
    ELSE <<curr>> \o walkFrom(d, d.next[curr], fuel - 1)

HeapSize(d) == Len(d.next)

Walk(d) == walkFrom(d, d.next[head], HeapSize(d))

Terminates(d) == Len(Walk(d)) < HeapSize(d)

\* ------------------------------------------------- public operations
\* Each operation maps the dict d to the dict after the call, with the
\* call's results: v (a V), ok (a bool), out (a slice).
Result(d, v, ok, out) == [d |-> d, v |-> v, ok |-> ok, out |-> out]

\* Set as it would be if an update also moved the key to the end of the order.
SetMovesToEnd(d, k, v) ==
    IF k \in DOMAIN d.data
    THEN LET n  == d.data[k]
             d1 == [d EXCEPT !.val[n] = v]
         IN  Result(linkToEnd(unlinkNode(d1, n), n), ZeroV, FALSE, <<>>)
    ELSE LET n  == NewNode(d)
             d1 == [d EXCEPT !.key[n] = k, !.val[n] = v,
                             !.prev[n] = Nil, !.next[n] = Nil]
             d2 == linkToEnd(d1, n)
             d3 == [d2 EXCEPT !.data = (k :> n) @@ d2.data]
         IN  Result([d3 EXCEPT !.len = d3.len + 1], ZeroV, FALSE, <<>>)

Set(d, k, v) ==
    IF k \in DOMAIN d.data
    THEN Result([d EXCEPT !.val[d.data[k]] = v], ZeroV, FALSE, <<>>)
    ELSE LET n  == NewNode(d)
             d1 == [d EXCEPT !.key[n] = k, !.val[n] = v,
                             !.prev[n] = Nil, !.next[n] = Nil]
             d2 == linkToEnd(d1, n)
             d3 == [d2 EXCEPT !.data = (k :> n) @@ d2.data]
         IN  Result([d3 EXCEPT !.len = d3.len + 1], ZeroV, FALSE, <<>>)

\* Get as it would be if it reported a key it did not find as found.
GetFindsAbsent(d, k) ==
    IF k \notin DOMAIN d.data
    THEN Result(d, ZeroV, TRUE, <<>>)
    ELSE Result(d, d.val[d.data[k]], TRUE, <<>>)

Get(d, k) ==
    IF k \notin DOMAIN d.data
    THEN Result(d, ZeroV, FALSE, <<>>)
    ELSE Result(d, d.val[d.data[k]], TRUE, <<>>)

\* Delete as it would be without delete(o.data, key).
DeleteKeepsIndex(d, k) ==
    IF k \notin DOMAIN d.data
    THEN Result(d, ZeroV, FALSE, <<>>)
    ELSE LET n  == d.data[k]
             d1 == unlinkNode(d, n)
         IN  Result([d1 EXCEPT !.len = d1.len - 1], d1.val[n], TRUE, <<>>)

\* Delete as it would be if o.len-- came before the existence check.
DeleteCountsAbsent(d, k) ==
    IF k \notin DOMAIN d.data
    THEN Result([d EXCEPT !.len = d.len - 1], ZeroV, FALSE, <<>>)
    ELSE LET n  == d.data[k]
             d1 == unlinkNode(d, n)
             d2 == [d1 EXCEPT !.data = [x \in (DOMAIN d1.data) \ {k} |-> d1.data[x]]]
         IN  Result([d2 EXCEPT !.len = d2.len - 1], d2.val[n], TRUE, <<>>)

Delete(d, k) ==
    IF k \notin DOMAIN d.data
    THEN Result(d, ZeroV, FALSE, <<>>)
    ELSE LET n  == d.data[k]
             d1 == unlinkNode(d, n)
             d2 == [d1 EXCEPT !.data = [x \in (DOMAIN d1.data) \ {k} |-> d1.data[x]]]
         IN  Result([d2 EXCEPT !.len = d2.len - 1], d2.val[n], TRUE, <<>>)

\* Remove as it would be if it unlinked the node and dropped the key itself,
\* without the count.
RemoveSkipsCount(d, k) ==
    IF k \notin DOMAIN d.data
    THEN Result(d, ZeroV, FALSE, <<>>)
    ELSE LET n  == d.data[k]
             d1 == unlinkNode(d, n)
         IN  Result([d1 EXCEPT !.data = [x \in (DOMAIN d1.data) \ {k} |-> d1.data[x]]],
                    ZeroV, TRUE, <<>>)

Remove(d, k) ==
    LET r == Delete(d, k)
    IN  Result(r.d, ZeroV, r.ok, <<>>)

Length(d) == Result(d, d.len, FALSE, <<>>)

Has(d, k) == Result(d, ZeroV, k \in DOMAIN d.data, <<>>)

Keys(d) ==
    LET w == Walk(d)
    IN  Result(d, ZeroV, FALSE, [i \in 1..Len(w) |-> d.key[w[i]]])

Values(d) ==
    LET w == Walk(d)
    IN  Result(d, ZeroV, FALSE, [i \in 1..Len(w) |-> d.val[w[i]]])

\* The pairs All yields to a consumer whose yield returns false at the
\* stop-th pair (stop = 0: the consumer never breaks).
All(d, stop) ==
    LET w == Walk(d)
        m == IF stop = 0 \/ stop > Len(w) THEN Len(w) ELSE stop
    IN  Result(d, ZeroV, FALSE, [i \in 1..m |-> <<d.key[w[i]], d.val[w[i]]>>])

\* Clear as it would be if it kept the sentinels and only reset head.next,
\* leaving tail.prev on the old last node.
ClearKeepsTailPrev(d) ==
    LET d1 == [d EXCEPT !.next[head] = tail]
        d2 == [d1 EXCEPT !.len = 0]
    IN  Result([d2 EXCEPT !.data = <<>>], ZeroV, FALSE, <<>>)

Clear(d) ==
    LET d1 == [d EXCEPT !.next[head] = tail, !.prev[head] = Nil,
                        !.next[tail] = Nil, !.prev[tail] = head]
        d2 == [d1 EXCEPT !.len = 0]
    IN  Result([d2 EXCEPT !.data = <<>>], ZeroV, FALSE, <<>>)

\* MoveToEnd as it would be if it reported a move for a key it did not find.
MoveToEndReportsAbsent(d, k) ==
    IF k \notin DOMAIN d.data
    THEN Result(d, ZeroV, TRUE, <<>>)
    ELSE LET n == d.data[k]
         IN  Result(linkToEnd(unlinkNode(d, n), n), ZeroV, TRUE, <<>>)

MoveToEnd(d, k) ==
    IF k \notin DOMAIN d.data
    THEN Result(d, ZeroV, FALSE, <<>>)
    ELSE LET n == d.data[k]
         IN  Result(linkToEnd(unlinkNode(d, n), n), ZeroV, TRUE, <<>>)

MoveToStart(d, k) ==
    IF k \notin DOMAIN d.data
    THEN Result(d, ZeroV, FALSE, <<>>)
    ELSE LET n == d.data[k]
         IN  Result(linkToStart(unlinkNode(d, n), n), ZeroV, TRUE, <<>>)

\* MoveAfter as it would be if it unlinked key's node before looking up
\* after.
MoveAfterUnlinksFirst(d, k, after) ==
    IF k \notin DOMAIN d.data
    THEN Result(d, ZeroV, FALSE, <<>>)
    ELSE LET n  == d.data[k]
             d1 == unlinkNode(d, n)
         IN  IF after \notin DOMAIN d.data
             THEN Result(d1, ZeroV, FALSE, <<>>)
             ELSE Result(linkAfter(d1, n, d.data[after]), ZeroV, TRUE, <<>>)

MoveAfter(d, k, after) ==
    IF after \notin DOMAIN d.data
    THEN Result(d, ZeroV, FALSE, <<>>)
    ELSE IF k \notin DOMAIN d.data
    THEN Result(d, ZeroV, FALSE, <<>>)
    ELSE LET afterNode == d.data[after]
             n == d.data[k]
         IN  Result(linkAfter(unlinkNode(d, n), n, afterNode), ZeroV, TRUE, <<>>)

\* ------------------------------------------------------ observations
\* What the public readers return on d.
Obs(d) ==
    [ keys   |-> Keys(d).out,
      values |-> Values(d).out,
      len    |-> Length(d).v,
      get    |-> [k \in KeySet |-> LET g == Get(d, k) IN [v |-> g.v, ok |-> g.ok]],
      has    |-> [k \in KeySet |-> Has(d, k).ok],
      ends   |-> Terminates(d) ]

Call(op, k, after, v, stop) ==
    [op |-> op, k |-> k, after |-> after, v |-> v, stop |-> stop]

NoCall == [call |-> Call("New", ZeroK, ZeroK, ZeroV, 0),
           v |-> ZeroV, ok |-> FALSE, out |-> <<>>, returned |-> TRUE]

\* The run of calls records one of them, the call under observation: pre is
\* the dict before it, last the call and what it returned.
\* The run ends with that call.
Observe(c, r, returned) ==
    /\ pre' = o
    /\ last' = [call |-> c, v |-> r.v, ok |-> r.ok, out |-> r.out,
                returned |-> returned]

\* The caller's record of its own calls after the call c.
NoneSet == [k \in KeySet |-> <<ZeroV, FALSE>>]

Recorded(c) ==
    CASE c.op = "Set" -> [recent EXCEPT ![c.k] = <<c.v, TRUE>>]
      [] c.op \in {"Delete", "Remove"} -> [recent EXCEPT ![c.k] = <<ZeroV, FALSE>>]
      [] c.op = "Clear" -> NoneSet
      [] OTHER -> recent

\* One call of a mutating operation, start to return: the calls of a single
\* goroutine, each of which finds o.mu free and leaves it free. The caller
\* makes at most MaxWrites of them.
WriteStep(c, r) ==
    /\ ~hung
    /\ last = NoCall
    /\ o' = Collect(r.d)
    /\ hung' = FALSE
    /\ recent' = Recorded(c)
    /\ UNCHANGED lockVars
    /\ \/ Observe(c, r, TRUE)
       \/ UNCHANGED <<pre, last>>

Write ==
    /\ writes < MaxWrites
    /\ writes' = writes + 1

\* One call of a reader, which changes nothing and returns only if its walk
\* of the list, when it makes one (walks), reaches the tail.
ReadStep(c, r, walks) ==
    /\ ~hung
    /\ last = NoCall
    /\ o' = o
    /\ writes' = writes
    /\ recent' = recent
    /\ UNCHANGED lockVars
    /\ IF walks /\ ~Terminates(o)
       THEN /\ hung' = TRUE
            /\ Observe(c, Result(o, ZeroV, FALSE, <<>>), FALSE)
       ELSE /\ hung' = FALSE
            /\ Observe(c, r, TRUE)

\* ------------------------------------------------------------ o.mu
\* The two definitions of OrderedDict in src/ordered_dict.go, by package.
Impls == {"ordered_dict", "main"}

Goroutines == 1..MaxGoroutines

\* The exported methods of each definition.
OpsOf(i) ==
    IF i = "ordered_dict"
    THEN {"Set", "Get", "Delete", "Remove", "Len", "Has", "Keys", "Values",
          "All", "Clear", "MoveToEnd", "MoveToStart", "MoveAfter"}
    ELSE {"Set", "Get", "Delete", "Remove", "Len", "Has", "Keys", "Values",
          "All"}

\* What a method calls on o.mu before it touches the dict, itself or in the
\* method it calls to do its work (Remove calls Delete; in package main Has
\* calls Get): o.mu.Lock(), o.mu.RLock(), or nothing.
LockOf(i, op) ==
    IF i = "ordered_dict"
    THEN CASE op \in {"Set", "Delete", "Remove", "Clear", "MoveToEnd",
                      "MoveToStart", "MoveAfter"} -> "Lock"
           [] op \in {"Get", "Len", "Has", "Keys", "Values", "All"} -> "RLock"
    ELSE CASE op = "Set" -> "Lock"
           [] op \in {"Get", "Has", "Keys", "Values", "All"} -> "RLock"
           [] op \in {"Delete", "Remove"} -> "RLock"
           [] op = "Len" -> "none"

\* The parts of the dict a method assigns to: the index (data), the list
\* pointers (links), the count (len), a node's value (val).
WrittenBy(op) ==
    CASE op = "Set" -> {"val", "links", "data", "len"}
      [] op \in {"Delete", "Remove"} -> {"links", "data", "len"}
      [] op = "Clear" -> {"links", "data", "len"}
      [] op \in {"MoveToEnd", "MoveToStart", "MoveAfter"} -> {"links"}
      [] OTHER -> {}

Mutates(op) == WrittenBy(op) # {}

Idle == [op |-> "none", at |-> "idle"]

MuFree == [w |-> FALSE, r |-> 0]

InitDict ==
    /\ o = New
    /\ last = NoCall
    /\ pre = New
    /\ hung = FALSE
    /\ writes = 0
    /\ recent = NoneSet

\* A single goroutine and the first definition, which has every method.
Init ==
    /\ InitDict
    /\ impl = "ordered_dict"
    /\ proc = [p \in Goroutines |-> Idle]
    /\ mu = MuFree

DoSet(k, v) ==
    /\ k \in DOMAIN o.data \/ Free(o) # {}
    /\ WriteStep(Call("Set", k, ZeroK, v, 0), Set(o, k, v))

DoDelete(k) == WriteStep(Call("Delete", k, ZeroK, ZeroV, 0), Delete(o, k))

CallSet == \E k \in KeySet, v \in ValSet : DoSet(k, v) /\ Write

CallGet ==
    \E k \in KeySet :
        ReadStep(Call("Get", k, ZeroK, ZeroV, 0), Get(o, k), FALSE)

CallHas ==
    \E k \in KeySet :
        ReadStep(Call("Has", k, ZeroK, ZeroV, 0), Has(o, k), FALSE)

CallDelete == \E k \in KeySet : DoDelete(k) /\ Write

CallRemove ==
    \E k \in KeySet :
        WriteStep(Call("Remove", k, ZeroK, ZeroV, 0), Remove(o, k)) /\ Write

CallLen == ReadStep(Call("Len", ZeroK, ZeroK, ZeroV, 0), Length(o), FALSE)

CallClear == WriteStep(Call("Clear", ZeroK, ZeroK, ZeroV, 0), Clear(o)) /\ Write

CallKeys == ReadStep(Call("Keys", ZeroK, ZeroK, ZeroV, 0), Keys(o), TRUE)

CallValues == ReadStep(Call("Values", ZeroK, ZeroK, ZeroV, 0), Values(o), TRUE)

\* The consumer's yield returns false at the stop-th pair, or never (0).
CallAll ==
    \E stop \in 0..NumKeys :
        ReadStep(Call("All", ZeroK, ZeroK, ZeroV, stop), All(o, stop),
                 stop = 0 \/ stop > Len(Walk(o)))

CallMoveToEnd ==
    \E k \in KeySet :
        WriteStep(Call("MoveToEnd", k, ZeroK, ZeroV, 0), MoveToEnd(o, k)) /\ Write

CallMoveToStart ==
    \E k \in KeySet :
        WriteStep(Call("MoveToStart", k, ZeroK, ZeroV, 0), MoveToStart(o, k)) /\ Write

CallMoveAfter ==
    \E k \in KeySet, after \in KeySet :
        WriteStep(Call("MoveAfter", k, after, ZeroV, 0), MoveAfter(o, k, after)) /\ Write

Next ==
    \/ CallSet
    \/ CallGet
    \/ CallHas
    \/ CallDelete
    \/ CallRemove
    \/ CallLen
    \/ CallClear
    \/ CallKeys
    \/ CallValues
    \/ CallAll
    \/ CallMoveToEnd
    \/ CallMoveToStart
    \/ CallMoveAfter

Spec == Init /\ [][Next]_vars

\* Only Set and Delete, in sequences of any length.
SetOnly == \E k \in KeySet, v \in ValSet : DoSet(k, v) /\ UNCHANGED writes

DeleteOnly == \E k \in KeySet : DoDelete(k) /\ UNCHANGED writes

NextSetDelete ==
    \/ SetOnly
    \/ DeleteOnly

SpecSetDelete == Init /\ [][NextSetDelete]_vars

\* Every operation but MoveAfter(k, k): the calls left when no caller ever
\* names the same key twice in MoveAfter.
CallMoveAfterOther ==
    \E k \in KeySet : \E after \in KeySet \ {k} :
        WriteStep(Call("MoveAfter", k, after, ZeroV, 0), MoveAfter(o, k, after)) /\ Write

NextNoSelfMove ==
    \/ CallSet
    \/ CallGet
    \/ CallHas
    \/ CallDelete
    \/ CallRemove
    \/ CallLen
    \/ CallClear
    \/ CallKeys
    \/ CallValues
    \/ CallAll
    \/ CallMoveToEnd
    \/ CallMoveToStart
    \/ CallMoveAfterOther

SpecNoSelfMove == Init /\ [][NextNoSelfMove]_vars

\* ------------------------------------------------- goroutines and o.mu
\* Several goroutines call methods of one dict. Every method does exactly
\* one Lock/Unlock or RLock/RUnlock around its body whatever the dict holds
\* (the early returns run the deferred unlock too), so these steps follow
\* each goroutine's position with respect to o.mu and leave the content of
\* the dict, which Spec follows call by call, as it is. A goroutine is in
\* its critical section (cs) from the return of Lock or RLock, or from the
\* start of a body that calls neither, to the method's return.
\* Lock returns when nobody holds o.mu, RLock when no writer holds it; that
\* a waiting Lock also holds back later RLock calls only removes behaviours.
At(p, where) == proc[p].at = where

GoCall(p) ==
    /\ At(p, "idle")
    /\ \E op \in OpsOf(impl) : proc' = [proc EXCEPT ![p] = [op |-> op, at |-> "entry"]]
    /\ UNCHANGED <<impl, mu>>
    /\ UNCHANGED dictVars

\* Lock as it would be if it returned without waiting for the holders of
\* o.mu to release it.
MuLockNoWait(p) ==
    /\ At(p, "entry")
    /\ LockOf(impl, proc[p].op) = "Lock"
    /\ mu' = [mu EXCEPT !.w = TRUE]
    /\ proc' = [proc EXCEPT ![p].at = "cs"]
    /\ UNCHANGED impl
    /\ UNCHANGED dictVars

\* o.mu.Lock() returns.
MuLock(p) ==
    /\ At(p, "entry")
    /\ LockOf(impl, proc[p].op) = "Lock"
    /\ ~mu.w
    /\ mu.r = 0
    /\ mu' = [mu EXCEPT !.w = TRUE]
    /\ proc' = [proc EXCEPT ![p].at = "cs"]
    /\ UNCHANGED impl
    /\ UNCHANGED dictVars

\* o.mu.RLock() returns.
MuRLock(p) ==
    /\ At(p, "entry")
    /\ LockOf(impl, proc[p].op) = "RLock"
    /\ ~mu.w
    /\ mu' = [mu EXCEPT !.r = mu.r + 1]
    /\ proc' = [proc EXCEPT ![p].at = "cs"]
    /\ UNCHANGED impl
    /\ UNCHANGED dictVars

\* The body of a method that calls neither starts.
NoLock(p) ==
    /\ At(p, "entry")
    /\ LockOf(impl, proc[p].op) = "none"
    /\ proc' = [proc EXCEPT ![p].at = "cs"]
    /\ UNCHANGED <<impl, mu>>
    /\ UNCHANGED dictVars

\* defer o.mu.Unlock(), and the method returns.
MuUnlock(p) ==
    /\ At(p, "cs")
    /\ LockOf(impl, proc[p].op) = "Lock"
    /\ mu' = [mu EXCEPT !.w = FALSE]
    /\ proc' = [proc EXCEPT ![p] = Idle]
    /\ UNCHANGED impl
    /\ UNCHANGED dictVars

\* defer o.mu.RUnlock(), and the method returns.
MuRUnlock(p) ==
    /\ At(p, "cs")
    /\ LockOf(impl, proc[p].op) = "RLock"
    /\ mu' = [mu EXCEPT !.r = mu.r - 1]
    /\ proc' = [proc EXCEPT ![p] = Idle]
    /\ UNCHANGED impl
    /\ UNCHANGED dictVars

\* A method that took no lock returns.
NoUnlock(p) ==
    /\ At(p, "cs")
    /\ LockOf(impl, proc[p].op) = "none"
    /\ proc' = [proc EXCEPT ![p] = Idle]
    /\ UNCHANGED <<impl, mu>>
    /\ UNCHANGED dictVars

InitLock ==
    /\ InitDict
    /\ impl \in Impls
    /\ proc = [p \in Goroutines |-> Idle]
    /\ mu = MuFree

NextLock ==
    \/ \E p \in Goroutines : GoCall(p)
    \/ \E p \in Goroutines : MuLock(p)
    \/ \E p \in Goroutines : MuRLock(p)
    \/ \E p \in Goroutines : NoLock(p)
    \/ \E p \in Goroutines : MuUnlock(p)
    \/ \E p \in Goroutines : MuRUnlock(p)
    \/ \E p \in Goroutines : NoUnlock(p)

SpecLock == InitLock /\ [][NextLock]_vars

\* The same for the first definition (package ordered_dict) alone, in which
\* every method calls Lock or RLock.
InitLockFirst ==
    /\ InitLock
    /\ impl = "ordered_dict"

NextLockFirst ==
    \/ \E p \in Goroutines : GoCall(p)
    \/ \E p \in Goroutines : MuLock(p)
    \/ \E p \in Goroutines : MuRLock(p)
    \/ \E p \in Goroutines : MuUnlock(p)
    \/ \E p \in Goroutines : MuRUnlock(p)

SpecLockFirst == InitLockFirst /\ [][NextLockFirst]_vars

\* --------------------------------------------- goroutines that Set
\* TestSetConcurrent: goroutine id (0, 1, ...) runs
\*   for j := 0; j < numOperations; j++ { od.Set(id*numOperations + j, key*2) }
\* Set runs statement by statement between Lock and Unlock: the lookup, the
\* allocation and linkToEnd's read of o.tail.prev; linkToEnd's pointer
\* writes; the index and the count.
Setters == 1..NumSetters

SetterKey(p, j) == (p - 1) * KeysEach + j

SetterKeys == {SetterKey(p, j) : p \in Setters, j \in 0..(KeysEach - 1)}

\* One node per key to insert, and the two sentinels.
SetterNodes == 1..(NumSetters * KeysEach + 2)

\* A setter before its j-th call.
SetterIdle(j) ==
    [op |-> "none", at |-> "idle", j |-> j, k |-> ZeroK, v |-> ZeroV,
     n |-> Nil, prevTail |-> Nil]

\* Nodes that a goroutine holds in a local variable.
Held == {proc[q].n : q \in Setters} \ {Nil}

\* od.Set(key, key*2) is called.
SetterCall(p) ==
    /\ At(p, "idle")
    /\ proc[p].j < KeysEach
    /\ LET key == SetterKey(p, proc[p].j)
       IN  proc' = [proc EXCEPT ![p].op = "Set", ![p].at = "entry",
                                ![p].k = key, ![p].v = key * 2]
    /\ UNCHANGED <<impl, mu>>
    /\ UNCHANGED dictVars

\* if existing, ok := o.data[key]; ok { existing.val = val; return }
\* n := &node[K, V]{key: key, val: val}; prevTail := o.tail.prev
SetLookup(p) ==
    /\ At(p, "cs")
    /\ IF proc[p].k \in DOMAIN o.data
       THEN /\ o' = [o EXCEPT !.val[o.data[proc[p].k]] = proc[p].v]
            /\ proc' = [proc EXCEPT ![p].at = "unlock"]
       ELSE LET free == (DOMAIN o.next) \ (Live(o) \cup Held)
                n    == CHOOSE x \in free : \A y \in free : x <= y
            IN  /\ o' = [o EXCEPT !.key[n] = proc[p].k, !.val[n] = proc[p].v,
                                  !.prev[n] = Nil, !.next[n] = Nil]
                /\ proc' = [proc EXCEPT ![p].at = "link", ![p].n = n,
                                        ![p].prevTail = o.prev[tail]]
    /\ UNCHANGED <<impl, mu>>
    /\ UNCHANGED <<last, pre, hung, writes, recent>>

\* linkToEnd after its first statement (lines 170-173); in package main the
\* same four assignments in the order of lines 295-298.
SetLink(p) ==
    /\ At(p, "link")
    /\ LET n  == proc[p].n
           pt == proc[p].prevTail
       IN  o' = IF impl = "ordered_dict"
                THEN LET d1 == [o  EXCEPT !.prev[n] = pt]
                         d2 == [d1 EXCEPT !.next[n] = tail]
                         d3 == [d2 EXCEPT !.next[pt] = n]
                     IN  [d3 EXCEPT !.prev[tail] = n]
                ELSE LET d1 == [o  EXCEPT !.prev[tail] = n]
                         d2 == [d1 EXCEPT !.next[pt] = n]
                         d3 == [d2 EXCEPT !.next[n] = tail]
                     IN  [d3 EXCEPT !.prev[n] = pt]
    /\ proc' = [proc EXCEPT ![p].at = "index"]
    /\ UNCHANGED <<impl, mu>>
    /\ UNCHANGED <<last, pre, hung, writes, recent>>

\* o.data[key] = n; o.len++
SetIndex(p) ==
    /\ At(p, "index")
    /\ LET d1 == [o EXCEPT !.data = (proc[p].k :> proc[p].n) @@ o.data]
       IN  o' = [d1 EXCEPT !.len = d1.len + 1]
    /\ proc' = [proc EXCEPT ![p].at = "unlock"]
    /\ UNCHANGED <<impl, mu>>
    /\ UNCHANGED <<last, pre, hung, writes, recent>>

\* defer o.mu.Unlock(), Set returns, j++.
SetterReturn(p) ==
    /\ At(p, "unlock")
    /\ mu' = [mu EXCEPT !.w = FALSE]
    /\ proc' = [proc EXCEPT ![p] = SetterIdle(proc[p].j + 1)]
    /\ UNCHANGED impl
    /\ UNCHANGED dictVars

InitSetters ==
    /\ o = NewOn(SetterNodes)
    /\ last = NoCall
    /\ pre = New
    /\ hung = FALSE
    /\ writes = 0
    /\ recent = NoneSet
    /\ impl \in Impls
    /\ proc = [p \in Setters |-> SetterIdle(0)]
    /\ mu = MuFree

NextSetters ==
    \/ \E p \in Setters : SetterCall(p)
    \/ \E p \in Setters : MuLock(p)
    \/ \E p \in Setters : SetLookup(p)
    \/ \E p \in Setters : SetLink(p)
    \/ \E p \in Setters : SetIndex(p)
    \/ \E p \in Setters : SetterReturn(p)

SpecSetters == InitSetters /\ [][NextSetters]_vars

\* ------------------------------------------- a walk beside writers
\* Goroutine 1 runs one loop  for k, v := range od.All() { ... }  whose
\* body breaks at the stop-th pair (stop = 0: never); the other goroutines
\* call Set and Delete, at most MaxWrites times in all. pre is the dict at
\* the walk's first statement and last.out the pairs yielded so far.
\* A writer's body runs in one step between its lock and its unlock: for
\* bodies that run under the same shared lock this is one of the
\* interleavings of their statements.
Walker == 1

Writers == Goroutines \ {Walker}

\* The garbage collector beside a goroutine that holds the nodes in held.
CollectHolding(d, held) ==
    LET L == reach(d, Live(d) \cup (held \ {Nil}))
    IN  [d EXCEPT !.next = [n \in 1..Len(d.next) |-> IF n \in L THEN d.next[n] ELSE Nil],
                  !.prev = [n \in 1..Len(d.prev) |-> IF n \in L THEN d.prev[n] ELSE Nil],
                  !.key  = [n \in 1..Len(d.key) |-> IF n \in L THEN d.key[n] ELSE ZeroK],
                  !.val  = [n \in 1..Len(d.val) |-> IF n \in L THEN d.val[n] ELSE ZeroV]]

\* The node the walker's curr points at, while it walks.
WalkerHolds ==
    IF proc[Walker].op = "All" /\ proc[Walker].at \in {"walk", "advance"}
    THEN {proc[Walker].curr}
    ELSE {}

\* range od.All() starts: the iterator function is called.
WalkCall ==
    /\ At(Walker, "idle")
    /\ last = NoCall
    /\ \E stop \in 0..NumKeys :
          /\ proc' = [proc EXCEPT ![Walker] =
                         [op |-> "All", at |-> "entry", curr |-> Nil]]
          /\ last' = [call |-> Call("All", ZeroK, ZeroK, ZeroV, stop),
                      v |-> ZeroV, ok |-> FALSE, out |-> <<>>,
                      returned |-> FALSE]
    /\ UNCHANGED <<impl, mu>>
    /\ UNCHANGED <<o, pre, hung, writes, recent>>

\* curr := o.head.next
WalkStart ==
    /\ proc[Walker].op = "All"
    /\ At(Walker, "cs")
    /\ proc' = [proc EXCEPT ![Walker].at = "walk", ![Walker].curr = o.next[head]]
    /\ pre' = o
    /\ UNCHANGED <<impl, mu>>
    /\ UNCHANGED <<o, last, hung, writes, recent>>

\* curr != o.tail; yield(curr.key, curr.val) and the loop body: it breaks
\* at the stop-th pair.
WalkYield ==
    /\ At(Walker, "walk")
    /\ proc[Walker].curr # tail
    /\ LET c   == proc[Walker].curr
           out == Append(last.out, <<o.key[c], o.val[c]>>)
       IN  /\ last' = [last EXCEPT !.out = out]
           /\ proc' = [proc EXCEPT ![Walker].at =
                          IF Len(out) = last.call.stop THEN "unlock" ELSE "advance"]
    /\ UNCHANGED <<impl, mu>>
    /\ UNCHANGED <<o, pre, hung, writes, recent>>

\* curr = curr.next
WalkAdvance ==
    /\ At(Walker, "advance")
    /\ proc' = [proc EXCEPT ![Walker].at = "walk",
                            ![Walker].curr = o.next[proc[Walker].curr]]
    /\ UNCHANGED <<impl, mu>>
    /\ UNCHANGED dictVars

\* curr == o.tail: the loop ends.
WalkEnd ==
    /\ At(Walker, "walk")
    /\ proc[Walker].curr = tail
    /\ proc' = [proc EXCEPT ![Walker].at = "unlock"]
    /\ UNCHANGED <<impl, mu>>
    /\ UNCHANGED dictVars

\* defer o.mu.RUnlock(), and the iterator function returns.
WalkReturn ==
    /\ proc[Walker].op = "All"
    /\ At(Walker, "unlock")
    /\ mu' = [mu EXCEPT !.r = mu.r - 1]
    /\ proc' = [proc EXCEPT ![Walker] = Idle]
    /\ last' = [last EXCEPT !.returned = TRUE]
    /\ o' = Collect(o)
    /\ UNCHANGED impl
    /\ UNCHANGED <<pre, hung, writes, recent>>

\* A writer calls Set(k, v) or Delete(k).
WriterCall(p) ==
    /\ At(p, "idle")
    /\ Write
    /\ \E op \in {"Set", "Delete"}, k \in KeySet, v \in ValSet :
          /\ op = "Delete" => v = 1
          /\ proc' = [proc EXCEPT ![p] = [op |-> op, at |-> "entry", k |-> k, v |-> v]]
    /\ UNCHANGED <<impl, mu>>
    /\ UNCHANGED <<o, last, pre, hung, recent>>

\* The body of Set or Delete, from after the lock to before the unlock.
WriterBody(p) ==
    /\ p \in Writers
    /\ At(p, "cs")
    /\ proc[p].op = "Set" => (proc[p].k \in DOMAIN o.data \/ Free(o) \ WalkerHolds # {})
    /\ LET r == IF proc[p].op = "Set"
                THEN Set(o, proc[p].k, proc[p].v)
                ELSE Delete(o, proc[p].k)
       IN  o' = CollectHolding(r.d, WalkerHolds)
    /\ proc' = [proc EXCEPT ![p].at = "unlock"]
    /\ UNCHANGED <<impl, mu>>
    /\ UNCHANGED <<last, pre, hung, writes, recent>>

\* The writer's deferred Unlock or RUnlock, and its return.
WriterReturn(p) ==
    /\ p \in Writers
    /\ At(p, "unlock")
    /\ mu' = IF LockOf(impl, proc[p].op) = "Lock"
             THEN [mu EXCEPT !.w = FALSE]
             ELSE [mu EXCEPT !.r = mu.r - 1]
    /\ proc' = [proc EXCEPT ![p] = Idle]
    /\ UNCHANGED impl
    /\ UNCHANGED dictVars

NextWalk ==
    \/ WalkCall
    \/ \E p \in Goroutines : MuLock(p)
    \/ \E p \in Goroutines : MuRLock(p)
    \/ WalkStart
    \/ WalkYield
    \/ WalkAdvance
    \/ WalkEnd
    \/ WalkReturn
    \/ \E p \in Writers : WriterCall(p)
    \/ \E p \in Writers : WriterBody(p)
    \/ \E p \in Writers : WriterReturn(p)

SpecWalk == InitLock /\ [][NextWalk]_vars

\* The same with the first definition (package ordered_dict) alone, whose
\* Delete calls Lock.
NextWalkFirst ==
    \/ WalkCall
    \/ \E p \in Goroutines : MuLock(p)
    \/ MuRLock(Walker)
    \/ WalkStart
    \/ WalkYield
    \/ WalkAdvance
    \/ WalkEnd
    \/ WalkReturn
    \/ \E p \in Writers : WriterCall(p)
    \/ \E p \in Writers : WriterBody(p)
    \/ \E p \in Writers : WriterReturn(p)

SpecWalkFirst == InitLockFirst /\ [][NextWalkFirst]_vars

\* --------------------------------------------- calls that must return
\* Goroutine 1 calls Keys and Len, as often as it likes; LiveWriters other
\* goroutines call the mutating methods on LiveKeys keys, at most MaxWrites
\* times in all. Keys walks the list pointer by pointer under its shared
\* lock; a writer's body runs in one step. Of the slice Keys builds only
\* whether its length is odd is kept: each pass of the loop appends to it,
\* so each pass is a step of the goroutine. Nodes that nothing reaches any more are left as they are: Set
\* assigns all four fields of the node it allocates.
LiveGoroutines == 1..(LiveWriters + 1)

LiveWriterSet == LiveGoroutines \ {Walker}

LiveKeySet == 1..LiveKeys

LiveNodes == 1..(MaxWrites + 2)

ReaderOps == {"Keys", "Len"}

WriterOps == {op \in OpsOf(impl) : Mutates(op)}

\* The call c made on the dict d.
Perform(d, c) ==
    CASE c.op = "Set" -> Set(d, c.k, c.v)
      [] c.op = "Delete" -> Delete(d, c.k)
      [] c.op = "Remove" -> Remove(d, c.k)
      [] c.op = "Clear" -> Clear(d)
      [] c.op = "MoveToEnd" -> MoveToEnd(d, c.k)
      [] c.op = "MoveToStart" -> MoveToStart(d, c.k)
      [] c.op = "MoveAfter" -> MoveAfter(d, c.k, c.after)

LiveCall(p) ==
    /\ At(p, "idle")
    /\ IF p = Walker
       THEN /\ \E op \in ReaderOps :
                 proc' = [proc EXCEPT ![p] = [op |-> op, at |-> "entry", curr |-> Nil, odd |-> FALSE]]
            /\ UNCHANGED writes
       ELSE /\ \E op \in WriterOps :
                 proc' = [proc EXCEPT ![p] = [op |-> op, at |-> "entry"]]
            /\ Write
    /\ UNCHANGED <<impl, mu>>
    /\ UNCHANGED <<o, last, pre, hung, recent>>

\* The body of a mutating method, with the arguments of the call; self
\* says whether MoveAfter(k, k) is among the calls made.
WriterApply(p, self) ==
    /\ p \in LiveWriterSet
    /\ At(p, "cs")
    /\ \E k \in LiveKeySet, after \in LiveKeySet :
          /\ self \/ proc[p].op # "MoveAfter" \/ k # after
          /\ o' = Perform(o, Call(proc[p].op, k, after, 1, 0)).d
    /\ proc' = [proc EXCEPT ![p].at = "unlock"]
    /\ UNCHANGED <<impl, mu>>
    /\ UNCHANGED <<last, pre, hung, writes, recent>>

\* Keys: curr := o.head.next
KeysStart ==
    /\ proc[Walker].op = "Keys"
    /\ At(Walker, "cs")
    /\ proc' = [proc EXCEPT ![Walker].at = "walk", ![Walker].curr = o.next[head]]
    /\ UNCHANGED <<impl, mu>>
    /\ UNCHANGED dictVars

\* Keys: curr != o.tail; k = append(k, curr.key); curr = curr.next
KeysStep ==
    /\ proc[Walker].op = "Keys"
    /\ At(Walker, "walk")
    /\ proc[Walker].curr # tail
    /\ proc' = [proc EXCEPT ![Walker].odd = ~proc[Walker].odd,
                            ![Walker].curr = o.next[proc[Walker].curr]]
    /\ UNCHANGED <<impl, mu>>
    /\ UNCHANGED dictVars

\* Keys: curr == o.tail, return k
KeysEnd ==
    /\ proc[Walker].op = "Keys"
    /\ At(Walker, "walk")
    /\ proc[Walker].curr = tail
    /\ proc' = [proc EXCEPT ![Walker].at = "unlock"]
    /\ UNCHANGED <<impl, mu>>
    /\ UNCHANGED dictVars

\* Len: return o.len
LenRead ==
    /\ proc[Walker].op = "Len"
    /\ At(Walker, "cs")
    /\ proc' = [proc EXCEPT ![Walker].at = "unlock"]
    /\ UNCHANGED <<impl, mu>>
    /\ UNCHANGED dictVars

\* The deferred Unlock or RUnlock, if the method took the lock, and the
\* return.
LiveReturn(p) ==
    /\ At(p, "unlock")
    /\ mu' = CASE LockOf(impl, proc[p].op) = "Lock" -> [mu EXCEPT !.w = FALSE]
               [] LockOf(impl, proc[p].op) = "RLock" -> [mu EXCEPT !.r = mu.r - 1]
               [] LockOf(impl, proc[p].op) = "none" -> mu
    /\ proc' = [proc EXCEPT ![p] = Idle]
    /\ UNCHANGED impl
    /\ UNCHANGED dictVars

InitLive ==
    /\ o = NewOn(LiveNodes)
    /\ last = NoCall
    /\ pre = New
    /\ hung = FALSE
    /\ writes = 0
    /\ recent = NoneSet
    /\ impl \in Impls
    /\ proc = [p \in LiveGoroutines |-> Idle]
    /\ mu = MuFree

\* What goroutine p does once it has called a method.
LiveStep(p, self) ==
    \/ MuLock(p)
    \/ MuRLock(p)
    \/ NoLock(p)
    \/ WriterApply(p, self)
    \/ (p = Walker /\ KeysStart)
    \/ (p = Walker /\ KeysStep)
    \/ (p = Walker /\ KeysEnd)
    \/ (p = Walker /\ LenRead)
    \/ LiveReturn(p)

NextLive ==
    \/ \E p \in LiveGoroutines : LiveCall(p)
    \/ \E p \in LiveGoroutines : LiveStep(p, TRUE)

\* The scheduler runs every goroutine that can run, and o.mu is fair: a
\* goroutine that waits for it gets it if it is free again and again.
FairLive == \A p \in LiveGoroutines : SF_vars(LiveStep(p, TRUE))

SpecLive == InitLive /\ [][NextLive]_vars /\ FairLive

\* The same without MoveAfter(k, k).
NextLiveNoSelfMove ==
    \/ \E p \in LiveGoroutines : LiveCall(p)
    \/ \E p \in LiveGoroutines : LiveStep(p, FALSE)

FairLiveNoSelfMove == \A p \in LiveGoroutines : SF_vars(LiveStep(p, FALSE))

SpecLiveNoSelfMove == InitLive /\ [][NextLiveNoSelfMove]_vars /\ FairLiveNoSelfMove

\* ================================================================ claims
\* What a caller sees of a dict d through the public readers.
KeysOf(d) == Keys(d).out
ValuesOf(d) == Values(d).out
LenOf(d) == Length(d).v
HasKey(d, k) == Has(d, k).ok
Lookup(d, k) == <<Get(d, k).v, Get(d, k).ok>>

Occurs(s, x) == Cardinality({i \in DOMAIN s : s[i] = x})
Elems(s) == {s[i] : i \in DOMAIN s}
SeqWithout(s, x) == SelectSeq(s, LAMBDA e : e # x)
IsPermutation(s, t) ==
    /\ Len(s) = Len(t)
    /\ \A x \in Elems(s) \cup Elems(t) : Occurs(s, x) = Occurs(t, x)
\* t is s with x put right after the element a.
InsertedAfter(s, a, x, t) ==
    \E i \in DOMAIN s :
        /\ s[i] = a
        /\ t = SubSeq(s, 1, i) \o <<x>> \o SubSeq(s, i + 1, Len(s))

Observed(op) == last.call.op = op /\ last.returned

\* C1: after every public operation returns, Len() equals the number of
\* data nodes on the walk from head.next to tail, which equals the number
\* of index entries, and the keys on the walk are the keys of the index,
\* none twice.
C1_IndexListAgree ==
    /\ LenOf(o) = Len(Walk(o))
    /\ Len(Walk(o)) = Cardinality(DOMAIN o.data)
    /\ Elems(KeysOf(o)) = DOMAIN o.data
    /\ \A k \in KeySet : Occurs(KeysOf(o), k) <= 1

\* C2: in every sequence of Set and Delete calls only, after each call,
\* Len() equals the number of keys reached by walking the list from head
\* to tail, which equals the number of entries of the index.
C2_TripleConsistency ==
    /\ Terminates(o)
    /\ LenOf(o) = Len(KeysOf(o))
    /\ Len(KeysOf(o)) = Cardinality(DOMAIN o.data)

\* A Delete of the middle one of three keys has returned.
C2_Witness ==
    /\ Observed("Delete")
    /\ last.ok
    /\ Len(KeysOf(pre)) = 3
    /\ KeysOf(pre)[2] = last.call.k
    /\ LenOf(o) = 2

\* C3: MoveAfter(key, after) with both keys present and key # after returns
\* true; afterwards Keys() is the previous Keys() with key removed and put
\* back right after `after`, and every value and Len() are unchanged.
C3_MoveAfterPlaces ==
    (/\ Observed("MoveAfter")
     /\ last.call.k # last.call.after
     /\ HasKey(pre, last.call.k)
     /\ HasKey(pre, last.call.after))
    => /\ last.ok
       /\ InsertedAfter(SeqWithout(KeysOf(pre), last.call.k), last.call.after,
                        last.call.k, KeysOf(o))
       /\ \A k \in KeySet : Lookup(o, k) = Lookup(pre, k)
       /\ LenOf(o) = LenOf(pre)

\* C4: MoveAfter(k, k) on a present key k returns true and leaves Len()
\* unchanged; afterwards Keys() still holds every key, with k right after
\* the key that followed it before the call.
C4_MoveAfterSelf ==
    (/\ Observed("MoveAfter")
     /\ last.call.k = last.call.after
     /\ HasKey(pre, last.call.k))
    => /\ last.ok
       /\ LenOf(o) = LenOf(pre)
       /\ IsPermutation(KeysOf(o), KeysOf(pre))
       /\ \A i \in 1..(Len(KeysOf(pre)) - 1) :
            KeysOf(pre)[i] = last.call.k
            => InsertedAfter(SeqWithout(KeysOf(pre), last.call.k),
                             KeysOf(pre)[i + 1], last.call.k, KeysOf(o))

\* C5: a reordering call (MoveToStart, MoveToEnd, MoveAfter, any arguments)
\* neither creates nor destroys entries: Keys() after it is a permutation
\* of Keys() before it, Get(k) returns the same for every k, Len() is
\* unchanged.
C5_ReorderKeepsEntries ==
    (Observed("MoveToStart") \/ Observed("MoveToEnd") \/ Observed("MoveAfter"))
    => /\ IsPermutation(KeysOf(o), KeysOf(pre))
       /\ \A k \in KeySet : Lookup(o, k) = Lookup(pre, k)
       /\ LenOf(o) = LenOf(pre)

\* C6: after any finite sequence of public operations the walk from
\* head.next reaches the tail sentinel, so every call of Keys(), Values()
\* and every full All() walk returns.
C6_WalksTerminate ==
    /\ Terminates(o)
    /\ last.call.op \in {"Keys", "Values", "All"} => last.returned

\* C7: Set(key, val) on a present key replaces only that key's value:
\* Len() and Keys() are unchanged, the values of all other keys are
\* unchanged, and Get(key) then returns (val, true).
C7_SetExisting ==
    (Observed("Set") /\ HasKey(pre, last.call.k))
    => /\ LenOf(o) = LenOf(pre)
       /\ KeysOf(o) = KeysOf(pre)
       /\ \A k \in KeySet \ {last.call.k} : Lookup(o, k) = Lookup(pre, k)
       /\ \A i \in DOMAIN KeysOf(pre) :
            KeysOf(pre)[i] # last.call.k => ValuesOf(o)[i] = ValuesOf(pre)[i]
       /\ Lookup(o, last.call.k) = <<last.call.v, TRUE>>

\* A Set of a new value on the first of two or more keys has returned.
C7_Witness ==
    /\ Observed("Set")
    /\ Len(KeysOf(pre)) >= 2
    /\ KeysOf(pre)[1] = last.call.k
    /\ Lookup(pre, last.call.k) # <<last.call.v, TRUE>>
    /\ Lookup(o, last.call.k) = <<last.call.v, TRUE>>

\* C8: Set(key, val) on an absent key makes key the last element of Keys(),
\* with the previous Keys() as an unchanged prefix, adds exactly 1 to Len(),
\* and Get(key) then returns (val, true).
C8_SetNewAppends ==
    (Observed("Set") /\ ~HasKey(pre, last.call.k))
    => /\ KeysOf(o) = Append(KeysOf(pre), last.call.k)
       /\ LenOf(o) = LenOf(pre) + 1
       /\ Lookup(o, last.call.k) = <<last.call.v, TRUE>>

\* C9: Delete(key) on a present key returns (its value, true); afterwards
\* Has(key) is false, key is not in Keys(), Len() is exactly 1 less, and the
\* remaining keys keep their relative order and their values.
C9_DeletePresent ==
    (Observed("Delete") /\ HasKey(pre, last.call.k))
    => /\ <<last.v, last.ok>> = Lookup(pre, last.call.k)
       /\ ~HasKey(o, last.call.k)
       /\ last.call.k \notin Elems(KeysOf(o))
       /\ LenOf(o) = LenOf(pre) - 1
       /\ KeysOf(o) = SeqWithout(KeysOf(pre), last.call.k)
       /\ \A k \in KeySet \ {last.call.k} : Lookup(o, k) = Lookup(pre, k)

\* C10: Delete(key) on an absent key returns (zero value, false) and leaves
\* Len(), Keys() and Values() unchanged.
C10_DeleteAbsent ==
    (Observed("Delete") /\ ~HasKey(pre, last.call.k))
    => /\ <<last.v, last.ok>> = <<ZeroV, FALSE>>
       /\ LenOf(o) = LenOf(pre)
       /\ KeysOf(o) = KeysOf(pre)
       /\ ValuesOf(o) = ValuesOf(pre)

\* A Delete of an absent key on a dict of two keys has returned.
C10_Witness ==
    /\ Observed("Delete")
    /\ ~HasKey(pre, last.call.k)
    /\ ~last.ok
    /\ Len(KeysOf(o)) = 2

\* C11: Clear() leaves the dict indistinguishable from a new one: Len() = 0,
\* Keys() is empty, Has(k) is false for every k, and calls made after it
\* return what they return on New(). The dict after Clear equals New, so
\* every sequence of calls runs the same on both; the Set that follows is
\* spelled out.
C11_ClearIsFresh ==
    Observed("Clear")
    => /\ LenOf(o) = 0
       /\ KeysOf(o) = <<>>
       /\ \A k \in KeySet : ~HasKey(o, k) /\ Lookup(o, k) = <<ZeroV, FALSE>>
       /\ o = New
       /\ \A k \in KeySet, v \in ValSet :
            Obs(Set(o, k, v).d) = Obs(Set(New, k, v).d)

\* A Clear of a dict of two or more keys has returned.
C11_Witness ==
    /\ Observed("Clear")
    /\ LenOf(pre) >= 2
    /\ Len(KeysOf(pre)) >= 2
    /\ LenOf(o) = 0

\* C12: MoveAfter(key, after) returns false and changes nothing (Keys(),
\* Values(), Len(), and no link of the list) whenever key is absent or
\* after is absent, whichever of the two is missing.
C12_MoveAfterAbsent ==
    (/\ Observed("MoveAfter")
     /\ ~HasKey(pre, last.call.k) \/ ~HasKey(pre, last.call.after))
    => /\ ~last.ok
       /\ KeysOf(o) = KeysOf(pre)
       /\ ValuesOf(o) = ValuesOf(pre)
       /\ LenOf(o) = LenOf(pre)
       /\ o = pre

\* A MoveAfter of a present key after an absent one, on a dict of two keys,
\* has returned.
C12_Witness ==
    /\ Observed("MoveAfter")
    /\ HasKey(pre, last.call.k)
    /\ ~HasKey(pre, last.call.after)
    /\ Len(KeysOf(pre)) = 2
    /\ ~last.ok

\* A MoveAfter of an absent key after a present one has returned.
C12_WitnessKeyAbsent ==
    /\ Observed("MoveAfter")
    /\ ~HasKey(pre, last.call.k)
    /\ HasKey(pre, last.call.after)
    /\ ~last.ok

\* C13: MoveToEnd(key) on a present key returns true; afterwards Keys() is
\* the previous Keys() with key removed and appended last (unchanged when
\* key was already last), and the values and Len() are unchanged.
C13_MoveToEndPlaces ==
    (Observed("MoveToEnd") /\ HasKey(pre, last.call.k))
    => /\ last.ok
       /\ KeysOf(o) = Append(SeqWithout(KeysOf(pre), last.call.k), last.call.k)
       /\ \A k \in KeySet : Lookup(o, k) = Lookup(pre, k)
       /\ LenOf(o) = LenOf(pre)

\* C14: MoveToStart(key) on a present key returns true; afterwards Keys() is
\* key followed by the previous Keys() with key removed (unchanged when key
\* was already first), and the values and Len() are unchanged.
C14_MoveToStartPlaces ==
    (Observed("MoveToStart") /\ HasKey(pre, last.call.k))
    => /\ last.ok
       /\ KeysOf(o) = <<last.call.k>> \o SeqWithout(KeysOf(pre), last.call.k)
       /\ \A k \in KeySet : Lookup(o, k) = Lookup(pre, k)
       /\ LenOf(o) = LenOf(pre)

\* C15: MoveToEnd and MoveToStart of a key that is not in the dict return
\* false and leave Keys(), Values() and Len() as they were.
C15_MoveToEndsAbsent ==
    (/\ Observed("MoveToEnd") \/ Observed("MoveToStart")
     /\ ~HasKey(pre, last.call.k))
    => /\ ~last.ok
       /\ KeysOf(o) = KeysOf(pre)
       /\ ValuesOf(o) = ValuesOf(pre)
       /\ LenOf(o) = LenOf(pre)
       /\ o = pre

\* A MoveToEnd of an absent key on a dict that holds two other keys.
C15_Witness ==
    /\ Observed("MoveToEnd")
    /\ ~HasKey(pre, last.call.k)
    /\ Len(KeysOf(pre)) = 2
    /\ ~last.ok

\* The same for MoveToStart.
C15_WitnessStart ==
    /\ Observed("MoveToStart")
    /\ ~HasKey(pre, last.call.k)
    /\ Len(KeysOf(pre)) = 2
    /\ ~last.ok

\* C16: Get(key) returns (v, true) where v is the value of the most recent
\* Set of key that no Delete, Remove or Clear followed, and (zero, false)
\* when there is none; Has(key) returns Get's found flag; neither changes
\* Keys(), Values() or Len().
C16_GetMostRecentSet ==
    /\ \A k \in KeySet :
          /\ Lookup(o, k) = recent[k]
          /\ HasKey(o, k) = Get(o, k).ok
    /\ Observed("Get") =>
          /\ <<last.v, last.ok>> = recent[last.call.k]
          /\ o = pre
    /\ Observed("Has") =>
          /\ last.ok = recent[last.call.k][2]
          /\ last.ok = Get(pre, last.call.k).ok
          /\ o = pre

\* A Get that finds the last value set, on a dict with a second key, after
\* more writes than there are keys in the dict.
C16_Witness ==
    /\ Observed("Get")
    /\ last.ok
    /\ last.v = MaxVal
    /\ LenOf(pre) = 2
    /\ writes > 2

\* A Get that finds nothing for a key after writes that left another key.
C16_WitnessAbsent ==
    /\ Observed("Get")
    /\ ~last.ok
    /\ last.v = ZeroV
    /\ LenOf(pre) = 1
    /\ writes > 2

\* A Has that finds its key.
C16_WitnessHas ==
    /\ Observed("Has")
    /\ last.ok
    /\ writes > 2

\* C17: Remove(key) changes the dict exactly as Delete(key) does and returns
\* true iff key was in the dict before the call; for an absent key it
\* returns false and changes nothing.
C17_RemoveAsDelete ==
    Observed("Remove") =>
        /\ o = Collect(Delete(pre, last.call.k).d)
        /\ last.ok = HasKey(pre, last.call.k)
        /\ last.ok = Delete(pre, last.call.k).ok
        /\ ~HasKey(pre, last.call.k) => (~last.ok /\ o = pre)

\* A Remove of the first of two keys.
C17_Witness ==
    /\ Observed("Remove")
    /\ last.ok
    /\ Len(KeysOf(pre)) = 2
    /\ KeysOf(pre)[1] = last.call.k
    /\ LenOf(o) = 1

\* A Remove of an absent key from a dict that holds another.
C17_WitnessAbsent ==
    /\ Observed("Remove")
    /\ ~last.ok
    /\ LenOf(pre) = 1
    /\ o = pre

\* C18: Keys(), Values() and All() describe the same order: Values() is as
\* long as Keys(), Values()[i] is the value Get(Keys()[i]) returns, and an
\* All() that is never stopped yields the pairs (Keys()[i], Values()[i]) for
\* the Len() positions, in that order.
C18_SameOrder ==
    LET ks  == KeysOf(o)
        vs  == ValuesOf(o)
        all == All(o, 0).out
    IN  /\ Terminates(o)
        /\ Len(vs) = Len(ks)
        /\ \A i \in DOMAIN ks : Lookup(o, ks[i]) = <<vs[i], TRUE>>
        /\ Len(all) = LenOf(o)
        /\ Len(ks) = LenOf(o)
        /\ \A i \in 1..LenOf(o) : all[i] = <<ks[i], vs[i]>>

\* The part of C18 that compares Values() with Get: a key that Keys() lists
\* is one that Get finds, with the value Values() lists.
C18_ValuesAreGets ==
    Terminates(o) =>
        \A i \in DOMAIN KeysOf(o) :
            Lookup(o, KeysOf(o)[i]) = <<ValuesOf(o)[i], TRUE>>

\* Goroutine p is inside the critical section of the method it is in.
InCS(p) == At(p, "cs")

\* C19: every mutating operation holds o.mu in exclusive mode while it
\* modifies the index, the links or the count: no mutating operation is in
\* its critical section while any other operation is in its own.
C19_WritersExclusive ==
    \A p \in Goroutines :
        (InCS(p) /\ Mutates(proc[p].op))
        => /\ LockOf(impl, proc[p].op) = "Lock"
           /\ mu.w
           /\ \A q \in Goroutines \ {p} : ~InCS(q)

\* C20: every read operation holds o.mu in shared mode while it reads the
\* index, the list or the count: no read is in its critical section while a
\* mutating operation is in its own.
C20_ReadersShared ==
    \A p \in Goroutines :
        (InCS(p) /\ ~Mutates(proc[p].op))
        => /\ LockOf(impl, proc[p].op) = "RLock"
           /\ mu.r > 0
           /\ \A q \in Goroutines \ {p} : InCS(q) => ~Mutates(proc[q].op)

\* The part of C20 about Len alone: a Len in its critical section holds
\* o.mu and no mutating operation is in its own.
C20_LenShared ==
    \A p \in Goroutines :
        (InCS(p) /\ proc[p].op = "Len")
        => /\ LockOf(impl, "Len") = "RLock"
           /\ \A q \in Goroutines \ {p} : InCS(q) => ~Mutates(proc[q].op)

\* The nodes a walk along prev pointers from the tail sentinel visits before
\* it reaches the head sentinel.
RECURSIVE walkBackFrom(_, _, _)
walkBackFrom(d, curr, fuel) ==
    IF curr = head \/ curr = Nil \/ fuel = 0
    THEN <<>>
    ELSE <<curr>> \o walkBackFrom(d, d.prev[curr], fuel - 1)

WalkBack(d) == walkBackFrom(d, d.prev[tail], Cardinality(Nodes))

Reverse(s) == [i \in 1..Len(s) |-> s[Len(s) + 1 - i]]

\* C26: the list is a well-formed doubly linked list: every node x on the
\* walk from head along next (head included, tail excluded) has
\* x.next.prev = x, the walk along prev from tail visits the same nodes in
\* reverse order, and when Len() = 0 head.next = tail and tail.prev = head.
C26_WellFormedList ==
    LET w == <<head>> \o Walk(o)
    IN  /\ Terminates(o)
        /\ \A i \in DOMAIN w :
              /\ o.next[w[i]] # Nil
              /\ o.prev[o.next[w[i]]] = w[i]
        /\ WalkBack(o) = Reverse(Walk(o))
        /\ LenOf(o) = 0 => (o.next[head] = tail /\ o.prev[tail] = head)

\* The part of C26 about the empty dict alone.
C26_EmptyLinked ==
    LenOf(o) = 0 => (o.next[head] = tail /\ o.prev[tail] = head)

\* Every setter has made all its calls and the last has returned.
SettersDone == \A p \in Setters : At(p, "idle") /\ proc[p].j = KeysEach

\* The place of x in the sequence s that holds it once.
IndexOf(s, x) == CHOOSE i \in DOMAIN s : s[i] = x

\* C21: when NumSetters goroutines have each Set KeysEach keys, all keys
\* distinct, in any interleaving, Len() is NumSetters * KeysEach, Keys()
\* holds each of the keys exactly once, and each goroutine's keys are in
\* Keys() in the order that goroutine inserted them.
C21_ConcurrentSets ==
    SettersDone =>
        LET ks == KeysOf(o)
        IN  /\ LenOf(o) = NumSetters * KeysEach
            /\ Len(ks) = NumSetters * KeysEach
            /\ \A k \in SetterKeys : Occurs(ks, k) = 1
            /\ \A p \in Setters : \A i, j \in 0..(KeysEach - 1) :
                  i < j => IndexOf(ks, SetterKey(p, i)) < IndexOf(ks, SetterKey(p, j))
            /\ \A k \in SetterKeys : Lookup(o, k) = <<k * 2, TRUE>>

\* All setters are done and their calls were interleaved: the second
\* goroutine's first key came first, the first goroutine's first key next.
C21_Witness ==
    /\ SettersDone
    /\ Len(KeysOf(o)) >= 2
    /\ KeysOf(o)[1] = SetterKey(2, 0)
    /\ KeysOf(o)[2] = SetterKey(1, 0)

\* The walker is between its first statement and its return.
Walking == proc[Walker].op = "All" /\ proc[Walker].at \in {"walk", "advance", "unlock"}

\* The walk is over, by the end of the list or by a break, and the walker
\* has not released the lock yet.
WalkOver == proc[Walker].op = "All" /\ At(Walker, "unlock")

\* The consumer broke out of the loop.
Broke == last.call.stop > 0 /\ Len(last.out) = last.call.stop

\* The first j elements of s.
Prefix(s, j) == SubSeq(s, 1, j)

\* C22: All() holds the shared lock from its first element until the walk
\* ends: while the walk lasts no mutating operation of another goroutine
\* takes effect, and the pairs one walk yields are the contents and order
\* of the dict at the moment the walk started.
C22_WalkSeesSnapshot ==
    /\ Walking => (mu.r > 0 /\ ~mu.w /\ o = pre)
    /\ (WalkOver /\ ~Broke) => last.out = All(pre, 0).out

\* C23: when the consumer stops after the j-th pair, exactly the first j
\* pairs of the order have been yielded, Keys(), Values() and Len() are as
\* before the walk, and once All has returned the walker holds o.mu no
\* more: the lock counts only the goroutines that are inside it.
C23_BreakReleases ==
    /\ (WalkOver /\ Broke) =>
          /\ last.out = Prefix(All(pre, 0).out, last.call.stop)
          /\ KeysOf(o) = KeysOf(pre)
          /\ ValuesOf(o) = ValuesOf(pre)
          /\ LenOf(o) = LenOf(pre)
    /\ (Observed("All") /\ Broke) =>
          /\ mu.r = Cardinality({q \in Goroutines :
                        proc[q].at \in {"cs", "unlock"}
                        /\ LockOf(impl, proc[q].op) = "RLock"})
          /\ mu.w = (\E q \in Goroutines :
                        proc[q].at \in {"cs", "unlock"}
                        /\ LockOf(impl, proc[q].op) = "Lock")

\* A walk that broke after its first pair has returned, and a writer that
\* took the exclusive lock afterwards has changed the dict.
C23_WriterAfterBreak ==
    /\ Observed("All")
    /\ Broke
    /\ Len(KeysOf(pre)) >= 2
    /\ impl = "ordered_dict"
    /\ o # pre

\* ---- the abstract ordered map of C24: a sequence of distinct keys and a
\* key-to-value function, get[k] = <<value, TRUE>> or <<zero, FALSE>>.
AbsOf(d) == [keys |-> KeysOf(d), get |-> [k \in KeySet |-> Lookup(d, k)]]

AbsResult(a, v, ok, out) == [a |-> a, v |-> v, ok |-> ok, out |-> out]

AbsHas(a, k) == a.get[k][2]

AbsValues(a) == [i \in DOMAIN a.keys |-> a.get[a.keys[i]][1]]

AbsPairs(a) == [i \in DOMAIN a.keys |-> <<a.keys[i], a.get[a.keys[i]][1]>>]

\* s with x put right after its element y.
PutAfter(s, y, x) ==
    LET i == IndexOf(s, y)
    IN  SubSeq(s, 1, i) \o <<x>> \o SubSeq(s, i + 1, Len(s))

\* The call c applied to the abstract ordered map a, with its results.
AbsApply(a, c) ==
    CASE c.op = "Set" ->
           AbsResult([keys |-> IF AbsHas(a, c.k) THEN a.keys ELSE Append(a.keys, c.k),
                      get  |-> [a.get EXCEPT ![c.k] = <<c.v, TRUE>>]],
                     ZeroV, FALSE, <<>>)
      [] c.op \in {"Delete", "Remove"} ->
           AbsResult([keys |-> SeqWithout(a.keys, c.k),
                      get  |-> [a.get EXCEPT ![c.k] = <<ZeroV, FALSE>>]],
                     IF c.op = "Delete" THEN a.get[c.k][1] ELSE ZeroV,
                     AbsHas(a, c.k), <<>>)
      [] c.op = "Clear" ->
           AbsResult([keys |-> <<>>, get |-> [k \in KeySet |-> <<ZeroV, FALSE>>]],
                     ZeroV, FALSE, <<>>)
      [] c.op = "MoveToEnd" ->
           IF AbsHas(a, c.k)
           THEN AbsResult([a EXCEPT !.keys = Append(SeqWithout(a.keys, c.k), c.k)],
                          ZeroV, TRUE, <<>>)
           ELSE AbsResult(a, ZeroV, FALSE, <<>>)
      [] c.op = "MoveToStart" ->
           IF AbsHas(a, c.k)
           THEN AbsResult([a EXCEPT !.keys = <<c.k>> \o SeqWithout(a.keys, c.k)],
                          ZeroV, TRUE, <<>>)
           ELSE AbsResult(a, ZeroV, FALSE, <<>>)
      [] c.op = "MoveAfter" ->
           IF AbsHas(a, c.k) /\ AbsHas(a, c.after)
           THEN AbsResult(IF c.k = c.after
                          THEN a
                          ELSE [a EXCEPT !.keys =
                                   PutAfter(SeqWithout(a.keys, c.k), c.after, c.k)],
                          ZeroV, TRUE, <<>>)
           ELSE AbsResult(a, ZeroV, FALSE, <<>>)
      [] c.op = "Get" -> AbsResult(a, a.get[c.k][1], a.get[c.k][2], <<>>)
      [] c.op = "Has" -> AbsResult(a, ZeroV, AbsHas(a, c.k), <<>>)
      [] c.op = "Len" -> AbsResult(a, Len(a.keys), FALSE, <<>>)
      [] c.op = "Keys" -> AbsResult(a, ZeroV, FALSE, a.keys)
      [] c.op = "Values" -> AbsResult(a, ZeroV, FALSE, AbsValues(a))
      [] c.op = "All" ->
           AbsResult(a, ZeroV, FALSE,
                     IF c.stop = 0 \/ c.stop > Len(a.keys)
                     THEN AbsPairs(a)
                     ELSE Prefix(AbsPairs(a), c.stop))
      [] OTHER -> AbsResult(a, ZeroV, FALSE, <<>>)

\* C24: every execution of the public operations is that of an abstract
\* ordered map: each call returns, with the results the call has on the
\* abstract map of the dict before it, and leaves the dict whose Keys(),
\* Get() and Len() are those of the abstract map after it.
C24_RefinesOrderedMap ==
    (last # NoCall) =>
        LET r == AbsApply(AbsOf(pre), last.call)
        IN  /\ last.returned
            /\ AbsOf(o) = r.a
            /\ LenOf(o) = Len(r.a.keys)
            /\ last.v = r.v
            /\ last.ok = r.ok
            /\ last.out = r.out

\* C25: goroutines that call the public operations, none from inside an
\* All() loop body: under a fair lock every call that was made returns.
C25_EveryCallReturns ==
    \A p \in LiveGoroutines : (proc[p].at # "idle") ~> (proc[p].at = "idle")

\* The part of C25 about the lock alone: it is never held forever.
C25_LockReleased == []<>(mu = MuFree)

====
